---- MODULE Spec2Model ----
(***************************************************************************)
(* Contact-point hooks of the alerting console                             *)
(* (public/app/features/alerting/unified/components/contact-points/        *)
(* useContactPoints.tsx).                                                  *)
(*                                                                         *)
(* Three groups of behaviour are modelled:                                 *)
(*   - the query hooks (list fetch, enrichment merge, backend selection),  *)
(*   - the single contact point lookup by name,                            *)
(*   - the mutations (delete, create/update, validate) as asynchronous     *)
(*     calls whose requests interleave on one legacy configuration         *)
(*     document and one structured receiver store.                         *)
(***************************************************************************)
EXTENDS Integers, Sequences, FiniteSets, TLC

VARIABLES
    config,        \* the legacy configuration document held by the server
    k8sStore,      \* the receiver resources held by the structured API
    alertmanager,  \* the alertmanager identifier the hooks are given
    k8sApiFor,     \* the backend selector's answer for each alertmanager
    mounted,       \* which query hook is mounted: "list", "single" or "none"
    fetchOptions,  \* fetchStatuses / fetchPolicies of the list hook
    lookupName,    \* the name the single lookup is asked for
    queries,       \* the cache entry of every query the hooks subscribe to
    bridge,        \* the OnCall plugin bridge: loading / installed / absent
    calls,         \* the mutation calls, one record per caller
    callsLeft      \* how many more mutation calls may be started

vars == <<config, k8sStore, alertmanager, k8sApiFor, mounted, fetchOptions,
          lookupName, queries, bridge, calls, callsLeft>>

----------------------------------------------------------------------------
(* Names.  A name is the sequence of the code points of a string, so that  *)
(* percent-decoding is computed and not assumed.                           *)

NameA        == <<97>>                          \* "a"
NameAB       == <<97, 32, 98>>                  \* "a b"
NameABEnc    == <<97, 37, 50, 48, 98>>          \* "a%20b"
NameABEnc2   == <<97, 37, 50, 53, 50, 48, 98>>  \* "a%2520b"
NameBadPct   == <<53, 48, 37>>                  \* "50%"
NameEAcute   == <<233>>                         \* "e" with acute accent
NameEAcuteEnc == <<37, 67, 51, 37, 65, 57>>     \* "%C3%A9"

NameUniverse ==
    {NameA, NameAB, NameABEnc, NameABEnc2, NameBadPct, NameEAcute, NameEAcuteEnc}

\* The outcome of decodeURIComponent on a malformed escape: a URIError.
URIError == "URIError"

IsHexDigit(c) == (c >= 48 /\ c <= 57) \/ (c >= 65 /\ c <= 70) \/ (c >= 97 /\ c <= 102)

HexValue(c) ==
    IF c >= 48 /\ c <= 57 THEN c - 48
    ELSE IF c >= 65 /\ c <= 70 THEN c - 55
    ELSE c - 87

\* Whether an escape %XY starts at position i of s.
HasEscapeAt(s, i) ==
    /\ i + 2 <= Len(s)
    /\ s[i] = 37
    /\ IsHexDigit(s[i + 1])
    /\ IsHexDigit(s[i + 2])

EscapeByte(s, i) == 16 * HexValue(s[i + 1]) + HexValue(s[i + 2])

\* The number of continuation octets a UTF-8 lead octet announces; -1 for an
\* octet that cannot start a character.
Continuations(b) ==
    IF b < 128 THEN 0
    ELSE IF b >= 192 /\ b <= 223 THEN 1
    ELSE IF b >= 224 /\ b <= 239 THEN 2
    ELSE IF b >= 240 /\ b <= 247 THEN 3
    ELSE -1

IsContinuationAt(s, i) ==
    /\ HasEscapeAt(s, i)
    /\ EscapeByte(s, i) >= 128
    /\ EscapeByte(s, i) <= 191

LeadBits(b, n) ==
    IF n = 1 THEN b - 192 ELSE IF n = 2 THEN b - 224 ELSE b - 240

RECURSIVE CodePoint(_, _, _, _)
\* The code point of a lead octet's bits `acc` followed by the n
\* continuation escapes that start at position i.
CodePoint(s, i, n, acc) ==
    IF n = 0 THEN acc
    ELSE CodePoint(s, i + 3, n - 1, acc * 64 + (EscapeByte(s, i) - 128))

ValidCodePoint(v, n) ==
    IF n = 1 THEN v >= 128
    ELSE IF n = 2 THEN v >= 2048 /\ ~(v >= 55296 /\ v <= 57343)
    ELSE v >= 65536 /\ v <= 1114111

RECURSIVE DecodeFrom(_, _)
\* decodeURIComponent from position i on: the decoded code points, or
\* URIError.
DecodeFrom(s, i) ==
    IF i > Len(s) THEN <<>>
    ELSE IF s[i] # 37 THEN
        LET rest == DecodeFrom(s, i + 1)
        IN  IF rest = URIError THEN URIError ELSE <<s[i]>> \o rest
    ELSE IF ~HasEscapeAt(s, i) THEN URIError
    ELSE
        LET b == EscapeByte(s, i)
            n == Continuations(b)
        IN  IF n = -1 THEN URIError
            ELSE IF n = 0 THEN
                LET rest == DecodeFrom(s, i + 3)
                IN  IF rest = URIError THEN URIError ELSE <<b>> \o rest
            ELSE IF \E k \in 1..n : ~IsContinuationAt(s, i + 3 * k) THEN URIError
            ELSE
                LET v == CodePoint(s, i + 3, n, LeadBits(b, n))
                    rest == DecodeFrom(s, i + 3 * (n + 1))
                IN  IF ~ValidCodePoint(v, n) THEN URIError
                    ELSE IF rest = URIError THEN URIError
                    ELSE <<v>> \o rest

decodeURIComponent(s) == DecodeFrom(s, 1)

----------------------------------------------------------------------------
(* Backends.                                                               *)

GRAFANA_RULES_SOURCE_NAME == "grafana"

Alertmanagers == {GRAFANA_RULES_SOURCE_NAME, "external"}

\* The backend selector: TRUE for the structured resource API, FALSE for the
\* legacy configuration document API.
shouldUseK8sApi(am) == k8sApiFor[am]

\* A receiver of the legacy document; `settings` stands for its integrations.
Receiver(name, settings) == [name |-> name, settings |-> settings]

\* A receiver resource of the structured API: metadata.name, metadata.uid,
\* spec.title and spec.integrations.
K8sReceiver(metaName, uid, title, settings) ==
    [metaName |-> metaName, uid |-> uid, title |-> title, settings |-> settings]

NoData == [kind |-> "none"]

Names(receivers) == {receivers[i].name : i \in DOMAIN receivers}

UniqueNames(receivers) ==
    \A i, j \in DOMAIN receivers : receivers[i].name = receivers[j].name => i = j

----------------------------------------------------------------------------
(* The query cache.  An entry is uninitialized while its query is skipped,  *)
(* pending while a request is in flight, and fulfilled or rejected after;   *)
(* the data of the last success is kept across a refetch.                   *)

ListQueries   == {"contactPointsList", "listNamespacedReceiver"}
EnrichQueries == {"onCallIntegrations", "grafanaNotifiers", "contactPointsStatus",
                  "grafanaConfiguration"}
SingleQueries == {"readNamespacedReceiver", "grafanaContactPoint",
                  "alertmanagerContactPoint"}
QueryIds == ListQueries \cup EnrichQueries \cup SingleQueries
              \cup {"alertmanagerConfiguration"}

Entry(status, data) == [status |-> status, data |-> data]

Uninitialized == Entry("uninitialized", NoData)

\* isLoading of a query result: a first load, with no data yet.
IsLoading(entry) == entry.status = "pending" /\ entry.data = NoData

\* The legacy configuration document: the receivers, in order, and the rest
\* of the document (the routing tree, templates, ...) as one value.
Document(receivers, rest) == [receivers |-> receivers, rest |-> rest]

\* What the legacy configuration endpoint answers: the whole document.
ConfigData(doc) == [kind |-> "config", doc |-> doc]

\* What the structured read endpoint answers: one receiver resource.
ResourceData(item) == [kind |-> "resource", item |-> item]

----------------------------------------------------------------------------
(* Single contact point lookup: useGetContactPoint.                        *)

\* The skip option of the structured read in useGetGrafanaContactPoint,
\* which useGetContactPoint mounts with skip: !isGrafana.
ReadReceiverSkip ==
    (alertmanager # GRAFANA_RULES_SOURCE_NAME)
        \/ ~shouldUseK8sApi(GRAFANA_RULES_SOURCE_NAME)

\* The skip option of the Grafana configuration lookup in
\* useGetGrafanaContactPoint.
GrafanaContactPointSkip ==
    (alertmanager # GRAFANA_RULES_SOURCE_NAME)
        \/ shouldUseK8sApi(GRAFANA_RULES_SOURCE_NAME)

\* The skip option of the other alertmanagers' lookup in useGetContactPoint.
AlertmanagerContactPointSkip == alertmanager = GRAFANA_RULES_SOURCE_NAME

SingleSkip(q) ==
    CASE q = "readNamespacedReceiver"   -> ReadReceiverSkip
      [] q = "grafanaContactPoint"      -> GrafanaContactPointSkip
      [] q = "alertmanagerContactPoint" -> AlertmanagerContactPointSkip

Thrown == [kind |-> "URIError"]
Found(receiver) == [kind |-> "receiver", receiver |-> receiver]

\* A comparison that forgets to decode: the two names as they are written.
CompareNamesUndecoded(stored, requested) ==
    IF stored = requested THEN "match" ELSE "differ"

\* The comparison the lookup applies to one stored receiver: "match",
\* "differ", or "throw" when a decoding raises URIError (the stored name is
\* decoded first, the requested name second).
CompareNames(stored, requested) ==
    IF decodeURIComponent(stored) = URIError THEN "throw"
    ELSE IF decodeURIComponent(requested) = URIError THEN "throw"
    ELSE IF decodeURIComponent(stored) = decodeURIComponent(requested) THEN "match"
    ELSE "differ"

RECURSIVE FindFrom(_, _, _)
\* receivers.find(...) from index i on, in the order of the document.
FindFrom(receivers, i, name) ==
    IF i > Len(receivers) THEN NoData
    ELSE LET c == CompareNames(receivers[i].name, name)
         IN  IF c = "throw" THEN Thrown
             ELSE IF c = "match" THEN Found(receivers[i])
             ELSE FindFrom(receivers, i + 1, name)

\* selectFromResult of useGetAlertmanagerContactPoint.
useGetAlertmanagerContactPoint(q, name) ==
    LET result == queries[q]
    IN  [query  |-> q,
         status |-> result.status,
         data   |-> IF result.data = NoData THEN NoData
                    ELSE FindFrom(result.data.doc.receivers, 1, name)]

parseK8sReceiver(item) ==
    [id |-> item.uid, name |-> item.title, settings |-> item.settings]

\* selectFromResult of the structured read in useGetGrafanaContactPoint.
ReadReceiverResponse ==
    LET result == queries["readNamespacedReceiver"]
    IN  [query  |-> "readNamespacedReceiver",
         status |-> result.status,
         data   |-> IF result.data = NoData THEN NoData
                    ELSE Found(parseK8sReceiver(result.data.item))]

useGetGrafanaContactPoint ==
    IF shouldUseK8sApi(GRAFANA_RULES_SOURCE_NAME)
    THEN ReadReceiverResponse
    ELSE useGetAlertmanagerContactPoint("grafanaContactPoint", lookupName)

useGetContactPoint ==
    IF alertmanager = GRAFANA_RULES_SOURCE_NAME
    THEN useGetGrafanaContactPoint
    ELSE useGetAlertmanagerContactPoint("alertmanagerContactPoint", lookupName)

----------------------------------------------------------------------------
(* The servers' answers and the life of a query.                           *)

RECURSIVE IndexOfResource(_, _, _)
\* The index of the resource whose metadata.name is `name`, or 0.
IndexOfResource(store, i, name) ==
    IF i > Len(store) THEN 0
    ELSE IF store[i].metaName = name THEN i
    ELSE IndexOfResource(store, i + 1, name)

\* Whether the server has an answer other than an error for query q.
CanAnswer(q) ==
    q = "readNamespacedReceiver" => IndexOfResource(k8sStore, 1, lookupName) # 0

\* The data a successful request of query q brings back.
Answer(q) ==
    CASE q = "contactPointsList" ->
            [kind |-> "receivers", items |-> config.receivers]
      [] q = "listNamespacedReceiver" ->
            [kind |-> "resources", items |-> k8sStore]
      [] q = "readNamespacedReceiver" ->
            ResourceData(k8sStore[IndexOfResource(k8sStore, 1, lookupName)])
      [] q \in {"grafanaContactPoint", "alertmanagerContactPoint",
                "grafanaConfiguration", "alertmanagerConfiguration"} ->
            ConfigData(config)
      [] OTHER -> [kind |-> q]

\* A pending request succeeds.
Fulfil(q) ==
    /\ queries[q].status = "pending"
    /\ CanAnswer(q)
    /\ queries' = [queries EXCEPT ![q] = Entry("fulfilled", Answer(q))]
    /\ UNCHANGED <<config, k8sStore, alertmanager, k8sApiFor, mounted,
                   fetchOptions, lookupName, bridge, calls, callsLeft>>

\* A pending request fails; the data of an earlier success stays.
Reject(q) ==
    /\ queries[q].status = "pending"
    /\ queries' = [queries EXCEPT ![q] = Entry("rejected", @.data)]
    /\ UNCHANGED <<config, k8sStore, alertmanager, k8sApiFor, mounted,
                   fetchOptions, lookupName, bridge, calls, callsLeft>>

\* A settled query is requested again (polling, refetch on focus or on
\* reconnect, or a retry).
Refetch(q) ==
    /\ queries[q].status \in {"fulfilled", "rejected"}
    /\ queries' = [queries EXCEPT ![q] = Entry("pending", @.data)]
    /\ UNCHANGED <<config, k8sStore, alertmanager, k8sApiFor, mounted,
                   fetchOptions, lookupName, bridge, calls, callsLeft>>

----------------------------------------------------------------------------
(* The list hooks: useContactPointsWithStatus and useGrafanaContactPoints.  *)

\* useContactPointsWithStatus mounts useGrafanaContactPoints with
\* skip: !isGrafanaAlertmanager.
GrafanaSkip == alertmanager # GRAFANA_RULES_SOURCE_NAME

\* usePluginBridge(SupportedPlugin.OnCall)
OnCallInstalled == bridge = "installed"
OnCallBridgeLoading == bridge = "loading"

\* A skip option of the legacy list query that forgets the backend selector.
ContactPointsListSkipIgnoringBackend == GrafanaSkip

\* The skip option of each query of the list hooks.
OnCallIntegrationsSkip == GrafanaSkip \/ ~OnCallInstalled
GrafanaNotifiersSkip == GrafanaSkip
ContactPointsListSkip == GrafanaSkip \/ shouldUseK8sApi(GRAFANA_RULES_SOURCE_NAME)
ListNamespacedReceiverSkip ==
    GrafanaSkip \/ ~shouldUseK8sApi(GRAFANA_RULES_SOURCE_NAME)
ContactPointsStatusSkip == GrafanaSkip \/ ~fetchOptions.fetchStatuses
GrafanaConfigurationSkip == GrafanaSkip \/ ~fetchOptions.fetchPolicies
AlertmanagerConfigurationSkip == alertmanager = GRAFANA_RULES_SOURCE_NAME

ListSkip(q) ==
    CASE q = "onCallIntegrations"        -> OnCallIntegrationsSkip
      [] q = "grafanaNotifiers"          -> GrafanaNotifiersSkip
      [] q = "contactPointsList"         -> ContactPointsListSkip
      [] q = "listNamespacedReceiver"    -> ListNamespacedReceiverSkip
      [] q = "contactPointsStatus"       -> ContactPointsStatusSkip
      [] q = "grafanaConfiguration"      -> GrafanaConfigurationSkip
      [] q = "alertmanagerConfiguration" -> AlertmanagerConfigurationSkip

\* Whether query q is skipped by the hook that is mounted.
Skip(q) ==
    IF mounted = "single" /\ q \in SingleQueries THEN SingleSkip(q)
    ELSE IF mounted = "list" /\ q \notin SingleQueries THEN ListSkip(q)
    ELSE TRUE

\* useOnCallIntegrations: the query's result when OnCall is installed, and
\* the bridge's loading flag with no data otherwise.
useOnCallIntegrations ==
    IF OnCallInstalled
    THEN [isLoading |-> IsLoading(queries["onCallIntegrations"]),
          data      |-> queries["onCallIntegrations"].data]
    ELSE [isLoading |-> OnCallBridgeLoading, data |-> NoData]

\* selectFromResult of the two list queries: one contact point per item.
ContactPointOfReceiver(r) ==
    [id |-> <<>>, name |-> r.name, settings |-> r.settings]

NormalizedList(data) ==
    IF data = NoData THEN NoData
    ELSE IF data.kind = "receivers"
    THEN [kind  |-> "contactPoints",
          items |-> [i \in DOMAIN data.items |-> ContactPointOfReceiver(data.items[i])]]
    ELSE [kind  |-> "contactPoints",
          items |-> [i \in DOMAIN data.items |-> parseK8sReceiver(data.items[i])]]

ListResponse(q) ==
    [query     |-> q,
     status    |-> queries[q].status,
     isLoading |-> IsLoading(queries[q]),
     data      |-> NormalizedList(queries[q].data)]

useFetchGrafanaContactPoints ==
    IF shouldUseK8sApi(GRAFANA_RULES_SOURCE_NAME)
    THEN ListResponse("listNamespacedReceiver")
    ELSE ListResponse("contactPointsList")

\* enhanceContactPointsWithMetadata: one enriched entry per contact point,
\* with its status when the status data is there.
enhanceContactPointsWithMetadata(contactPoints, status) ==
    [i \in DOMAIN contactPoints |->
        [contactPoint |-> contactPoints[i], hasStatus |-> status # NoData]]

\* A loading flag that looks at the list fetch alone.
ListAloneLoading == useFetchGrafanaContactPoints.isLoading

\* The isLoading computed at the top of useGrafanaContactPoints' memo.
ConstituentsLoading ==
    \/ useOnCallIntegrations.isLoading
    \/ IsLoading(queries["grafanaNotifiers"])
    \/ useFetchGrafanaContactPoints.isLoading

\* The condition of the block that answers "still loading".
InLoadingBlock ==
    ConstituentsLoading \/ useFetchGrafanaContactPoints.data = NoData

useGrafanaContactPoints ==
    LET list == useFetchGrafanaContactPoints
    IN  IF InLoadingBlock
        THEN [query |-> list.query, status |-> list.status, data |-> list.data,
              isLoading |-> TRUE, contactPoints |-> <<>>]
        ELSE [query |-> list.query, status |-> list.status, data |-> list.data,
              isLoading |-> list.isLoading,
              contactPoints |->
                  enhanceContactPointsWithMetadata(
                      list.data.items, queries["contactPointsStatus"].data)]

\* selectFromResult of the configuration query of useContactPointsWithStatus.
AlertmanagerConfigResponse ==
    LET result == queries["alertmanagerConfiguration"]
    IN  [query |-> "alertmanagerConfiguration", status |-> result.status,
         data |-> result.data, isLoading |-> IsLoading(result),
         contactPoints |->
             IF result.data = NoData THEN <<>>
             ELSE enhanceContactPointsWithMetadata(
                      [i \in DOMAIN result.data.doc.receivers |->
                          ContactPointOfReceiver(result.data.doc.receivers[i])],
                      NoData)]

useContactPointsWithStatus ==
    IF alertmanager = GRAFANA_RULES_SOURCE_NAME
    THEN useGrafanaContactPoints
    ELSE AlertmanagerConfigResponse

\* The plugin bridge finishes loading; when OnCall turns out to be installed
\* the integrations query is no longer skipped and its request goes out.
BridgeSettles ==
    /\ mounted = "list"
    /\ bridge = "loading"
    /\ \E b \in {"installed", "absent"} :
          /\ bridge' = b
          /\ queries' =
                IF b = "installed" /\ ~GrafanaSkip
                THEN [queries EXCEPT !["onCallIntegrations"] = Entry("pending", NoData)]
                ELSE queries
    /\ UNCHANGED <<config, k8sStore, alertmanager, k8sApiFor, mounted,
                   fetchOptions, lookupName, calls, callsLeft>>

----------------------------------------------------------------------------
(* Mutation calls.                                                         *)

Callers == {"c1", "c2"}

\* A caller that has not called yet.  `name` is the argument of delete and
\* the value of validate; the empty name stands for an argument left out
\* (or given as the empty string, which the code treats alike).
IdleCall ==
    [op |-> "idle", pc |-> "idle", name |-> <<>>,
     contactPoint |-> Receiver(<<>>, "s0"), originalName |-> <<>>, id |-> <<>>,
     skipValidation |-> FALSE, receiver |-> Receiver(<<>>, "s0"),
     newConfig |-> NoData, log |-> <<>>, outcome |-> "none", value |-> NoData]

hookVars == <<alertmanager, k8sApiFor, mounted, fetchOptions, lookupName, queries, bridge>>

\* What a call has done so far: its requests, their responses, and the
\* cache invalidations it dispatched, in order.
Event(ev, api, req, ok, arg) ==
    [ev |-> ev, api |-> api, req |-> req, ok |-> ok, arg |-> arg]
Request(api, req, arg) == Event("request", api, req, TRUE, arg)
Response(api, req, ok, arg) == Event("response", api, req, ok, arg)
Invalidation(api, tags) ==
    Event("invalidateTags", api, "invalidateTags", TRUE, [kind |-> "tags", tags |-> tags])

NameArg(n) == [kind |-> "name", name |-> n]

Logged(call, events) == [call EXCEPT !.log = @ \o events]

\* The call's promise settles.
Settled(call, outcome, value) ==
    [call EXCEPT !.pc = "done", !.outcome = outcome, !.value = value]

\* A caller may call when it has no call in flight; the second caller is
\* named so only once the first has called.
CanStart(c) ==
    /\ callsLeft > 0
    /\ calls[c].pc \in {"idle", "done"}
    /\ c = "c2" => calls["c1"].op # "idle"

\* The servers refuse a document, or a store, in which two receivers share
\* a name.
ServerAccepts(doc) == UniqueNames(doc.receivers)

(* ---- useDeleteContactPoint ---- *)

\* A removal whose predicate is inverted: the named receiver alone is kept.
RemoveOthers(doc, name) ==
    Document(SelectSeq(doc.receivers, LAMBDA r : r.name = name), doc.rest)

\* produce(data, draft => remove(draft.alertmanager_config.receivers,
\*                                receiver => receiver.name === name))
RemoveReceiver(doc, name) ==
    Document(SelectSeq(doc.receivers, LAMBDA r : r.name # name), doc.rest)

\* The function useDeleteContactPoint returns is called with { name }.
DeleteCall(c, name) ==
    /\ CanStart(c)
    /\ callsLeft' = callsLeft - 1
    /\ calls' = [calls EXCEPT ![c] =
          IF shouldUseK8sApi(alertmanager)
          THEN [IdleCall EXCEPT !.op = "delete", !.name = name,
                                !.pc = "deleteReceiver",
                                !.log = <<Request("k8s", "deleteReceiver", NameArg(name))>>]
          ELSE [IdleCall EXCEPT !.op = "delete", !.name = name,
                                !.pc = "fetchConfig",
                                !.log = <<Request("legacy", "getConfig", NoData)>>]]
    /\ UNCHANGED <<config, k8sStore, hookVars>>

\* deleteReceiver(...).unwrap() settles.
DeleteReceiverDone(c) ==
    /\ calls[c].op = "delete"
    /\ calls[c].pc = "deleteReceiver"
    /\ \/ /\ IndexOfResource(k8sStore, 1, calls[c].name) # 0
          /\ k8sStore' = SelectSeq(k8sStore, LAMBDA r : r.metaName # calls[c].name)
          /\ calls' = [calls EXCEPT ![c] =
                Settled(Logged(@, <<Response("k8s", "deleteReceiver", TRUE, NoData)>>),
                        "resolved", NoData)]
       \/ /\ UNCHANGED k8sStore
          /\ calls' = [calls EXCEPT ![c] =
                Settled(Logged(@, <<Response("k8s", "deleteReceiver", FALSE, NoData)>>),
                        "rejected", NoData)]
    /\ UNCHANGED <<config, callsLeft, hookVars>>

\* fetchAlertmanagerConfig(alertmanager).then(({ data }) => ...): with data
\* the receiver is removed and the document written back; without data the
\* callback returns and the promise resolves.
DeleteFetchDone(c) ==
    /\ calls[c].op = "delete"
    /\ calls[c].pc = "fetchConfig"
    /\ \/ LET newConfig == ConfigData(RemoveReceiver(config, calls[c].name))
          IN  calls' = [calls EXCEPT ![c] =
                [Logged(@, <<Response("legacy", "getConfig", TRUE, ConfigData(config)),
                             Request("legacy", "putConfig", newConfig)>>)
                    EXCEPT !.pc = "updateAlertManager", !.newConfig = newConfig]]
       \/ calls' = [calls EXCEPT ![c] =
                Settled(Logged(@, <<Response("legacy", "getConfig", FALSE, NoData)>>),
                        "resolved", NoData)]
    /\ UNCHANGED <<config, k8sStore, callsLeft, hookVars>>

\* updateAlertManager({ selectedAlertmanager, config }).unwrap() settles.
DeleteWriteDone(c) ==
    /\ calls[c].op = "delete"
    /\ calls[c].pc = "updateAlertManager"
    /\ \/ /\ ServerAccepts(calls[c].newConfig.doc)
          /\ config' = calls[c].newConfig.doc
          /\ calls' = [calls EXCEPT ![c] =
                Settled(Logged(@, <<Response("legacy", "putConfig", TRUE, NoData)>>),
                        "resolved", NoData)]
       \/ /\ UNCHANGED config
          /\ calls' = [calls EXCEPT ![c] =
                Settled(Logged(@, <<Response("legacy", "putConfig", FALSE, NoData)>>),
                        "rejected", NoData)]
    /\ UNCHANGED <<k8sStore, callsLeft, hookVars>>

(* ---- useCreateOrUpdateContactPoint ---- *)

\* grafanaContactPointToK8sReceiver: metadata.name is set only for an id
\* that is given (and not empty).
grafanaContactPointToK8sReceiver(contactPoint, id) ==
    [kind |-> "k8sReceiver", hasMetadata |-> id # <<>>, metaName |-> id,
     title |-> contactPoint.name, settings |-> contactPoint.settings]

\* createOnCallIntegrations: the receiver with its OnCall integrations
\* provisioned.
createOnCallIntegrations(contactPoint) ==
    Receiver(contactPoint.name,
             IF contactPoint.settings = "s1" THEN "s1+onCall" ELSE contactPoint.settings)

\* updateConfigWithReceiver: the receiver replaces the one named
\* originalName, or is added when no original name is given.
updateConfigWithReceiver(doc, receiver, originalName) ==
    IF originalName = <<>>
    THEN Document(Append(doc.receivers, receiver), doc.rest)
    ELSE Document([i \in DOMAIN doc.receivers |->
                      IF doc.receivers[i].name = originalName
                      THEN receiver ELSE doc.receivers[i]],
                  doc.rest)

\* A structured branch that replaces whenever an id is given, whether or not
\* an original name was supplied.
K8sReplaceWheneverId(contactPoint, originalName, id) ==
    LET contactPointToUse == grafanaContactPointToK8sReceiver(contactPoint, id)
        called == [IdleCall EXCEPT !.op = "createOrUpdate",
                                   !.contactPoint = contactPoint,
                                   !.originalName = originalName, !.id = id]
    IN  IF id = <<>>
        THEN [called EXCEPT !.pc = "createReceiver",
                !.log = <<Request("k8s", "createReceiver", contactPointToUse)>>]
        ELSE [called EXCEPT !.pc = "replaceReceiver",
                !.log = <<Request("k8s", "replaceReceiver",
                                  [kind |-> "replace", name |-> id,
                                   body |-> contactPointToUse])>>]

\* The structured branch of the returned function: what it does when called.
K8sCreateOrUpdate(contactPoint, originalName, id) ==
    LET contactPointToUse == grafanaContactPointToK8sReceiver(contactPoint, id)
        called == [IdleCall EXCEPT !.op = "createOrUpdate",
                                   !.contactPoint = contactPoint,
                                   !.originalName = originalName, !.id = id]
    IN  IF id = <<>>
        THEN [called EXCEPT !.pc = "createReceiver",
                !.log = <<Request("k8s", "createReceiver", contactPointToUse)>>]
        ELSE IF originalName # <<>>
        THEN [called EXCEPT !.pc = "replaceReceiver",
                !.log = <<Request("k8s", "replaceReceiver",
                                  [kind |-> "replace", name |-> id,
                                   body |-> contactPointToUse])>>]
        ELSE Settled(called, "resolved", NoData)

\* A legacy branch that provisions OnCall whatever the alertmanager is.
LegacyAlwaysOnCall(contactPoint, originalName, id) ==
    [IdleCall EXCEPT !.op = "createOrUpdate", !.contactPoint = contactPoint,
                     !.originalName = originalName, !.id = id,
                     !.receiver = contactPoint,
                     !.pc = "createOnCallIntegrations",
                     !.log = <<Request("onCall", "createOnCallIntegrations", NoData)>>]

\* The legacy branch of the returned function: what it does when called.
LegacyCreateOrUpdate(contactPoint, originalName, id) ==
    LET called == [IdleCall EXCEPT !.op = "createOrUpdate",
                                   !.contactPoint = contactPoint,
                                   !.originalName = originalName, !.id = id,
                                   !.receiver = contactPoint]
    IN  IF alertmanager = GRAFANA_RULES_SOURCE_NAME
        THEN [called EXCEPT !.pc = "createOnCallIntegrations",
                !.log = <<Request("onCall", "createOnCallIntegrations", NoData)>>]
        ELSE [called EXCEPT !.pc = "fetchConfig",
                !.log = <<Request("legacy", "getConfig", NoData)>>]

\* The function useCreateOrUpdateContactPoint returns is called with
\* { contactPoint, originalName, id }.
CreateOrUpdateCall(c, contactPoint, originalName, id) ==
    /\ CanStart(c)
    /\ callsLeft' = callsLeft - 1
    /\ calls' = [calls EXCEPT ![c] =
          IF shouldUseK8sApi(alertmanager)
          THEN K8sCreateOrUpdate(contactPoint, originalName, id)
          ELSE LegacyCreateOrUpdate(contactPoint, originalName, id)]
    /\ UNCHANGED <<config, k8sStore, hookVars>>

\* The identifiers the structured API gives to the receivers it creates.
ResourceNames == {NameA, NameABEnc, NameEAcute}

\* createGrafanaContactPoint(...).unwrap() settles.
CreateReceiverDone(c) ==
    /\ calls[c].op = "createOrUpdate"
    /\ calls[c].pc = "createReceiver"
    /\ \/ \E u \in ResourceNames :
            LET created == K8sReceiver(u, u, calls[c].contactPoint.name,
                                       calls[c].contactPoint.settings)
            IN  /\ IndexOfResource(k8sStore, 1, u) = 0
                /\ \A i \in DOMAIN k8sStore : k8sStore[i].title # created.title
                /\ k8sStore' = Append(k8sStore, created)
                /\ calls' = [calls EXCEPT ![c] =
                      Settled(Logged(@, <<Response("k8s", "createReceiver", TRUE,
                                                   ResourceData(created))>>),
                              "resolved", ResourceData(created))]
       \/ /\ UNCHANGED k8sStore
          /\ calls' = [calls EXCEPT ![c] =
                Settled(Logged(@, <<Response("k8s", "createReceiver", FALSE, NoData)>>),
                        "rejected", NoData)]
    /\ UNCHANGED <<config, callsLeft, hookVars>>

\* replaceGrafanaContactPoint(...).unwrap() settles.
ReplaceReceiverDone(c) ==
    /\ calls[c].op = "createOrUpdate"
    /\ calls[c].pc = "replaceReceiver"
    /\ \/ LET k == IndexOfResource(k8sStore, 1, calls[c].id)
              replaced == K8sReceiver(calls[c].id, calls[c].id,
                                      calls[c].contactPoint.name,
                                      calls[c].contactPoint.settings)
          IN  /\ k # 0
              /\ \A i \in DOMAIN k8sStore : i # k => k8sStore[i].title # replaced.title
              /\ k8sStore' = [k8sStore EXCEPT ![k] = replaced]
              /\ calls' = [calls EXCEPT ![c] =
                    Settled(Logged(@, <<Response("k8s", "replaceReceiver", TRUE,
                                                 ResourceData(replaced))>>),
                            "resolved", ResourceData(replaced))]
       \/ /\ UNCHANGED k8sStore
          /\ calls' = [calls EXCEPT ![c] =
                Settled(Logged(@, <<Response("k8s", "replaceReceiver", FALSE, NoData)>>),
                        "rejected", NoData)]
    /\ UNCHANGED <<config, callsLeft, hookVars>>

\* await createOnCallIntegrations(contactPoint) settles; on success the
\* configuration is requested.
OnCallDone(c) ==
    /\ calls[c].op = "createOrUpdate"
    /\ calls[c].pc = "createOnCallIntegrations"
    /\ \/ calls' = [calls EXCEPT ![c] =
                [Logged(@, <<Response("onCall", "createOnCallIntegrations", TRUE, NoData),
                             Request("legacy", "getConfig", NoData)>>)
                    EXCEPT !.pc = "fetchConfig",
                           !.receiver = createOnCallIntegrations(calls[c].contactPoint)]]
       \/ calls' = [calls EXCEPT ![c] =
                Settled(Logged(@, <<Response("onCall", "createOnCallIntegrations",
                                             FALSE, NoData)>>),
                        "rejected", NoData)]
    /\ UNCHANGED <<config, k8sStore, callsLeft, hookVars>>

\* await getAlertmanagerConfig(alertmanager).unwrap() settles; on success
\* the new document is computed and the update action dispatched.
CreateFetchDone(c) ==
    /\ calls[c].op = "createOrUpdate"
    /\ calls[c].pc = "fetchConfig"
    /\ \/ LET newConfig == ConfigData(updateConfigWithReceiver(
                                config, calls[c].receiver, calls[c].originalName))
          IN  calls' = [calls EXCEPT ![c] =
                [Logged(@, <<Response("legacy", "getConfig", TRUE, ConfigData(config)),
                             Request("legacy", "putConfig", newConfig)>>)
                    EXCEPT !.pc = "updateAlertManagerConfigAction",
                           !.newConfig = newConfig]]
       \/ calls' = [calls EXCEPT ![c] =
                Settled(Logged(@, <<Response("legacy", "getConfig", FALSE, NoData)>>),
                        "rejected", NoData)]
    /\ UNCHANGED <<config, k8sStore, callsLeft, hookVars>>

\* How the promise of the dispatched updateAlertManagerConfigAction settles
\* when the write fails: the failure is surfaced to the caller.
FailedUpdateActionOutcome == "rejected"

\* await dispatch(updateAlertManagerConfigAction(...)) settles; the .then
\* callback follows a promise that fulfils.
CreateWriteDone(c) ==
    /\ calls[c].op = "createOrUpdate"
    /\ calls[c].pc = "updateAlertManagerConfigAction"
    /\ \/ /\ ServerAccepts(calls[c].newConfig.doc)
          /\ config' = calls[c].newConfig.doc
          /\ calls' = [calls EXCEPT ![c] =
                [Logged(@, <<Response("legacy", "putConfig", TRUE, NoData)>>)
                    EXCEPT !.pc = "invalidateTags"]]
       \/ /\ UNCHANGED config
          /\ calls' = [calls EXCEPT ![c] =
                IF FailedUpdateActionOutcome = "rejected"
                THEN Settled(Logged(@, <<Response("legacy", "putConfig", FALSE, NoData)>>),
                             "rejected", NoData)
                ELSE [Logged(@, <<Response("legacy", "putConfig", FALSE, NoData)>>)
                        EXCEPT !.pc = "invalidateTags"]]
    /\ UNCHANGED <<k8sStore, callsLeft, hookVars>>

AlertingApiTags == {"AlertmanagerConfiguration", "ContactPoint", "ContactPointsStatus"}
ReceiversApiTags == {"Receiver"}

\* The .then callback of the dispatch: both caches' tags are invalidated.
InvalidateTags(c) ==
    /\ calls[c].op = "createOrUpdate"
    /\ calls[c].pc = "invalidateTags"
    /\ calls' = [calls EXCEPT ![c] =
          Settled(Logged(@, <<Invalidation("alertingApi", AlertingApiTags),
                              Invalidation("generatedReceiversApi", ReceiversApiTags)>>),
                  "resolved", NoData)]
    /\ UNCHANGED <<config, k8sStore, callsLeft, hookVars>>

(* ---- useValidateContactPoint ---- *)

DuplicateMessage(value) == [kind |-> "message", name |-> value]

\* A check that compares the names after percent-decoding.
ValidateAgainstDecoded(doc, value) ==
    IF \E i \in DOMAIN doc.receivers :
          CompareNames(doc.receivers[i].name, value) = "match"
    THEN DuplicateMessage(value)
    ELSE NoData

\* The check of the fetched document: a message when a receiver's name is
\* the value, and nothing otherwise.
ValidateAgainst(doc, value) ==
    IF \E i \in DOMAIN doc.receivers : doc.receivers[i].name = value
    THEN DuplicateMessage(value)
    ELSE NoData

\* The validator is called with (value, skipValidation).
ValidateCall(c, value, skipValidation) ==
    /\ CanStart(c)
    /\ callsLeft' = callsLeft - 1
    /\ LET called == [IdleCall EXCEPT !.op = "validate", !.name = value,
                                      !.skipValidation = skipValidation]
       IN  calls' = [calls EXCEPT ![c] =
              IF shouldUseK8sApi(alertmanager) \/ skipValidation
              THEN Settled(called, "resolved", NoData)
              ELSE [called EXCEPT !.pc = "fetchConfig",
                        !.log = <<Request("legacy", "getConfig", NoData)>>]]
    /\ UNCHANGED <<config, k8sStore, hookVars>>

\* getConfig(alertmanager).unwrap() settles.
ValidateFetchDone(c) ==
    /\ calls[c].op = "validate"
    /\ calls[c].pc = "fetchConfig"
    /\ \/ calls' = [calls EXCEPT ![c] =
                Settled(Logged(@, <<Response("legacy", "getConfig", TRUE, ConfigData(config))>>),
                        "resolved", ValidateAgainst(config, calls[c].name))]
       \/ calls' = [calls EXCEPT ![c] =
                Settled(Logged(@, <<Response("legacy", "getConfig", FALSE, NoData)>>),
                        "rejected", NoData)]
    /\ UNCHANGED <<config, k8sStore, callsLeft, hookVars>>

----------------------------------------------------------------------------
(* Bounds and the initial states.                                          *)

\* The most receivers a document starts with when a lookup is mounted.
MaxLookupReceivers == 2

\* The sequences without repetition, of length at most n, over set S.
RECURSIVE DistinctSeqs(_, _)
DistinctSeqs(S, n) ==
    IF n = 0 THEN {<<>>}
    ELSE LET shorter == DistinctSeqs(S, n - 1)
         IN  shorter \cup
             UNION {{Append(q, x) : x \in S \ {q[i] : i \in DOMAIN q}} :
                        q \in {t \in shorter : Len(t) = n - 1}}

ReceiversNamed(names) == [i \in DOMAIN names |-> Receiver(names[i], "s0")]

\* The receiver stores the structured API starts with.
ResourceA  == K8sReceiver(NameA, NameA, NameAB, "s0")
ResourceAB == K8sReceiver(NameABEnc, NameABEnc, NameABEnc, "s0")
InitialStores == {<<>>, <<ResourceA>>, <<ResourceA, ResourceAB>>}

\* The cache when the hooks mount: a request is sent for every query that
\* is not skipped.
MountedQueries ==
    [q \in QueryIds |-> IF Skip(q) THEN Uninitialized ELSE Entry("pending", NoData)]

NoCalls ==
    /\ calls = [c \in Callers |-> IdleCall]
    /\ callsLeft = 0

\* The single lookup is mounted on some document and some store.
InitLookup ==
    /\ mounted = "single"
    /\ alertmanager \in Alertmanagers
    /\ k8sApiFor \in [Alertmanagers -> BOOLEAN]
    /\ lookupName \in NameUniverse
    /\ \E names \in DistinctSeqs(NameUniverse, MaxLookupReceivers) :
          config = Document(ReceiversNamed(names), "r0")
    /\ k8sStore \in InitialStores
    /\ fetchOptions = [fetchStatuses |-> FALSE, fetchPolicies |-> FALSE]
    /\ bridge = "loading"
    /\ queries = MountedQueries
    /\ NoCalls

NextLookup ==
    \E q \in SingleQueries : Fulfil(q) \/ Reject(q) \/ Refetch(q)

SpecLookup == InitLookup /\ [][NextLookup]_vars

\* The list hook is mounted.
InitHooks ==
    /\ mounted = "list"
    /\ alertmanager \in Alertmanagers
    /\ k8sApiFor \in [Alertmanagers -> BOOLEAN]
    /\ lookupName = <<>>
    /\ \E names \in {<<>>, <<NameA, NameAB>>} :
          config = Document(ReceiversNamed(names), "r0")
    /\ k8sStore \in {<<>>, <<ResourceA>>}
    /\ fetchOptions \in [fetchStatuses : BOOLEAN, fetchPolicies : BOOLEAN]
    /\ bridge = "loading"
    /\ queries = MountedQueries
    /\ NoCalls

NextHooks ==
    \/ BridgeSettles
    \/ \E q \in QueryIds \ SingleQueries : Fulfil(q) \/ Reject(q) \/ Refetch(q)

SpecHooks == InitHooks /\ [][NextHooks]_vars

\* The most calls the callers make, and the most receivers the document
\* starts with when mutations run.
MaxCalls == 2
MaxReceivers == 3

\* The arguments the calls are given.
DeleteNames == {NameA, NameAB}
ValidateValues == {NameAB, NameABEnc}
ContactPoints == {Receiver(NameA, "s1"), Receiver(NameEAcute, "s1")}
OriginalNames == {<<>>, NameA}
Ids == {<<>>, NameA}

InitialNames == <<NameA, NameAB, NameABEnc>>

\* No hook is mounted; the callers hold the functions the mutation hooks
\* returned for one alertmanager.
InitMutations ==
    /\ mounted = "none"
    /\ alertmanager \in Alertmanagers
    /\ k8sApiFor \in [Alertmanagers -> BOOLEAN]
    /\ lookupName = <<>>
    /\ \E n \in 0..MaxReceivers :
          /\ n <= Len(InitialNames)
          /\ config = Document(ReceiversNamed(SubSeq(InitialNames, 1, n)), "r0")
    /\ k8sStore = <<ResourceA>>
    /\ fetchOptions = [fetchStatuses |-> FALSE, fetchPolicies |-> FALSE]
    /\ bridge = "loading"
    /\ queries = [q \in QueryIds |-> Uninitialized]
    /\ calls = [c \in Callers |-> IdleCall]
    /\ callsLeft = MaxCalls

NextMutations ==
    \E c \in Callers :
        \/ \E name \in DeleteNames : DeleteCall(c, name)
        \/ DeleteReceiverDone(c)
        \/ DeleteFetchDone(c)
        \/ DeleteWriteDone(c)
        \/ \E contactPoint \in ContactPoints, originalName \in OriginalNames, id \in Ids :
              CreateOrUpdateCall(c, contactPoint, originalName, id)
        \/ CreateReceiverDone(c)
        \/ ReplaceReceiverDone(c)
        \/ OnCallDone(c)
        \/ CreateFetchDone(c)
        \/ CreateWriteDone(c)
        \/ InvalidateTags(c)
        \/ \E value \in ValidateValues, skipValidation \in BOOLEAN :
              ValidateCall(c, value, skipValidation)
        \/ ValidateFetchDone(c)

Spec == InitMutations /\ [][NextMutations]_vars

\* Hooks, lookups and mutations, each started from its own initial states.
SpecAll ==
    (InitHooks \/ InitLookup \/ InitMutations)
        /\ [][NextHooks \/ NextLookup \/ NextMutations]_vars

----------------------------------------------------------------------------
(* Properties of the list hooks (checked under SpecHooks).                 *)

ListMounted == mounted = "list" /\ ~GrafanaSkip

SelectedListQuery ==
    IF shouldUseK8sApi(GRAFANA_RULES_SOURCE_NAME)
    THEN "listNamespacedReceiver" ELSE "contactPointsList"

ListLoading == IsLoading(queries[SelectedListQuery])
NotifiersLoading == IsLoading(queries["grafanaNotifiers"])
StatusLoading == IsLoading(queries["contactPointsStatus"])
OnCallLoading ==
    \/ bridge = "loading"
    \/ bridge = "installed" /\ IsLoading(queries["onCallIntegrations"])
ListHasData == queries[SelectedListQuery].data # NoData

C10_SettledStopsLoading ==
    ListMounted /\ ~ListLoading /\ ~NotifiersLoading /\ ~OnCallLoading
        => ~useGrafanaContactPoints.isLoading

\* C10, second part, as stated: the returned contactPoints list is empty
\* exactly when the hook is in its loading block.
C10_EmptyExactlyWhenLoadingBlock ==
    ListMounted =>
        (Len(useGrafanaContactPoints.contactPoints) = 0 <=> InLoadingBlock)

----------------------------------------------------------------------------
(* Properties of the single lookup (checked under SpecLookup).             *)

OnLegacyPath ==
    \/ alertmanager # GRAFANA_RULES_SOURCE_NAME
    \/ ~shouldUseK8sApi(GRAFANA_RULES_SOURCE_NAME)

SelectedSingleQuery ==
    IF alertmanager # GRAFANA_RULES_SOURCE_NAME THEN "alertmanagerContactPoint"
    ELSE IF shouldUseK8sApi(GRAFANA_RULES_SOURCE_NAME) THEN "readNamespacedReceiver"
    ELSE "grafanaContactPoint"

LookupFulfilled ==
    mounted = "single" /\ queries[SelectedSingleQuery].status = "fulfilled"

\* The names of the receivers the addressed backend stores.
StoredNames ==
    IF OnLegacyPath THEN Names(config.receivers)
    ELSE {k8sStore[i].title : i \in DOMAIN k8sStore}

WellFormed(n) == decodeURIComponent(n) # URIError

EqualAfterDecoding(s, r) ==
    WellFormed(s) /\ WellFormed(r) /\ decodeURIComponent(s) = decodeURIComponent(r)

\* C7 as stated, for names that can all be percent-decoded: on every backend
\* path, for every stored name S that equals the requested name after
\* percent-decoding the lookup returns the receiver named S, and it returns
\* no receiver when no stored name equals the requested name after decoding.
C7_DecodedLookupEveryPath ==
    (LookupFulfilled /\ WellFormed(lookupName) /\ \A s \in StoredNames : WellFormed(s)) =>
        LET data == useGetContactPoint.data
        IN  /\ \A s \in StoredNames :
                  EqualAfterDecoding(s, lookupName)
                      => data.kind = "receiver" /\ data.receiver.name = s
            /\ (\A s \in StoredNames : ~EqualAfterDecoding(s, lookupName))
                  => data.kind = "none"

\* C7 as amended: on the legacy configuration paths the lookup walks the
\* receivers in document order, decoding the stored name and then the
\* requested name; it returns the first receiver whose decoded name equals
\* the decoded requested name, raises URIError if it meets a malformed
\* percent-sequence before such a receiver, and returns no receiver
\* otherwise.  On the structured path the requested name is the resource
\* identifier, matched as written, and the receiver returned is that
\* resource whatever its title.
C7_LegacyDecodedLookup ==
    LookupFulfilled =>
        LET data == useGetContactPoint.data
            rs == config.receivers
            Bad(i) == ~WellFormed(rs[i].name) \/ ~WellFormed(lookupName)
            Match(i) == EqualAfterDecoding(rs[i].name, lookupName)
            Stops(i) == Bad(i) \/ Match(i)
        IN  IF OnLegacyPath
            THEN /\ (\A i \in DOMAIN rs : ~Stops(i)) => data.kind = "none"
                 /\ \A i \in DOMAIN rs :
                       (Stops(i) /\ \A j \in 1..(i - 1) : ~Stops(j))
                           => IF Match(i) THEN data = Found(rs[i])
                              ELSE data.kind = "URIError"
            ELSE /\ data.kind = "receiver"
                 /\ \E i \in DOMAIN k8sStore :
                       /\ k8sStore[i].metaName = lookupName
                       /\ data.receiver = parseK8sReceiver(k8sStore[i])

\* "a%20b" is asked for, the document stores "a b" and not "a%20b", and the
\* lookup has returned the receiver named "a b".
C7_Witness ==
    /\ LookupFulfilled
    /\ OnLegacyPath
    /\ lookupName = NameABEnc
    /\ NameAB \in StoredNames
    /\ NameABEnc \notin StoredNames
    /\ useGetContactPoint.data.kind = "receiver"
    /\ useGetContactPoint.data.receiver.name = NameAB

----------------------------------------------------------------------------
(* Properties of the mutations (checked under Spec).                       *)

Legacy == ~shouldUseK8sApi(alertmanager)

IsRequest(e, req) == e.ev = "request" /\ e.req = req
IsResponse(e, req, ok) == e.ev = "response" /\ e.req = req /\ e.ok = ok

Requests(log) == {i \in DOMAIN log : log[i].ev = "request"}

\* C2: a legacy delete of N that fetched a document holding a receiver
\* named N writes back the fetched document with exactly one entry, the
\* receiver named N, removed: the other receivers unchanged and in the same
\* order, and the rest of the document unchanged.
C2_LegacyDeleteRemovesExactlyOne ==
    \A c \in Callers :
        LET call == calls[c]
        IN  (call.op = "delete" /\ Legacy) =>
              \A i \in DOMAIN call.log :
                  (/\ IsRequest(call.log[i], "putConfig")
                   /\ call.name \in Names(call.log[i - 1].arg.doc.receivers))
                  => LET fetched == call.log[i - 1].arg.doc
                         written == call.log[i].arg.doc
                     IN  /\ IsResponse(call.log[i - 1], "getConfig", TRUE)
                         /\ written.rest = fetched.rest
                         /\ \E k \in DOMAIN fetched.receivers :
                               /\ fetched.receivers[k].name = call.name
                               /\ written.receivers =
                                     SubSeq(fetched.receivers, 1, k - 1)
                                       \o SubSeq(fetched.receivers, k + 1,
                                                 Len(fetched.receivers))

\* A legacy delete of the middle one of three receivers has written the
\* document back and resolved.
C2_Witness ==
    \E c \in Callers :
        /\ calls[c].op = "delete"
        /\ Legacy
        /\ calls[c].outcome = "resolved"
        /\ Len(calls[c].log) = 4
        /\ Len(calls[c].log[2].arg.doc.receivers) = 3
        /\ calls[c].log[2].arg.doc.receivers[2].name = calls[c].name
        /\ Len(calls[c].log[3].arg.doc.receivers) = 2

\* C3: whenever a request a mutation issued has failed, the call's promise
\* does not settle as a success and the call issues no further request.
C3_FailureSurfaced ==
    \A c \in Callers :
        \A i \in DOMAIN calls[c].log :
            (calls[c].log[i].ev = "response" /\ ~calls[c].log[i].ok)
                => /\ calls[c].outcome # "resolved"
                   /\ \A j \in DOMAIN calls[c].log :
                         j > i => calls[c].log[j].ev # "request"

\* C4 as stated: with the structured backend, create-or-update issues
\* exactly one request per call: a create when no id is given, a replace
\* addressed to the id when an id and an original name are given; never
\* both, and never a request to the legacy configuration API.
C4_ExactlyOneRequest ==
    \A c \in Callers :
        LET call == calls[c]
        IN  (call.op = "createOrUpdate" /\ ~Legacy) =>
              /\ Cardinality(Requests(call.log)) = 1
              /\ \A i \in Requests(call.log) :
                    /\ call.log[i].api = "k8s"
                    /\ call.id = <<>> => call.log[i].req = "createReceiver"
                    /\ (call.id # <<>> /\ call.originalName # <<>>)
                          => /\ call.log[i].req = "replaceReceiver"
                             /\ call.log[i].arg.name = call.id

\* C4 as amended: with the structured backend, create-or-update issues at
\* most one request per call and none to the legacy configuration API: one
\* create (with no metadata name) when no id is given, one replace addressed
\* to the id when an id and an original name are given, and no request at
\* all - the call resolves at once - when an id is given without an
\* original name.
C4_AtMostOneRequest ==
    \A c \in Callers :
        LET call == calls[c]
        IN  (call.op = "createOrUpdate" /\ ~Legacy) =>
              /\ \A i \in DOMAIN call.log :
                    call.log[i].api = "k8s" /\ call.log[i].ev # "invalidateTags"
              /\ call.id = <<>> =>
                    /\ Cardinality(Requests(call.log)) = 1
                    /\ IsRequest(call.log[1], "createReceiver")
                    /\ ~call.log[1].arg.hasMetadata
                    /\ call.log[1].arg.title = call.contactPoint.name
              /\ (call.id # <<>> /\ call.originalName # <<>>) =>
                    /\ Cardinality(Requests(call.log)) = 1
                    /\ IsRequest(call.log[1], "replaceReceiver")
                    /\ call.log[1].arg.name = call.id
                    /\ call.log[1].arg.body.metaName = call.id
                    /\ call.log[1].arg.body.title = call.contactPoint.name
              /\ (call.id # <<>> /\ call.originalName = <<>>) =>
                    /\ call.log = <<>>
                    /\ call.outcome = "resolved"
                    /\ call.value = NoData

\* A structured create-or-update with an id and no original name has
\* resolved without a request, while the other caller's replace with an id
\* and an original name went out.
C4_Witness ==
    \E c, d \in Callers :
        /\ ~Legacy
        /\ calls[c].op = "createOrUpdate"
        /\ calls[c].id # <<>>
        /\ calls[c].originalName = <<>>
        /\ calls[c].outcome = "resolved"
        /\ calls[d].op = "createOrUpdate"
        /\ calls[d].id # <<>>
        /\ calls[d].originalName # <<>>
        /\ calls[d].outcome = "resolved"

Label(e) == <<e.ev, e.req, e.ok>>
Labels(log) == [i \in DOMAIN log |-> Label(log[i])]

IsPrefix(p, q) == Len(p) <= Len(q) /\ SubSeq(q, 1, Len(p)) = p

\* The steps of a legacy create-or-update that meets no failure.
FullLegacyCreate ==
    (IF alertmanager = GRAFANA_RULES_SOURCE_NAME
     THEN << <<"request", "createOnCallIntegrations", TRUE>>,
             <<"response", "createOnCallIntegrations", TRUE>> >>
     ELSE <<>>)
    \o << <<"request", "getConfig", TRUE>>, <<"response", "getConfig", TRUE>>,
           <<"request", "putConfig", TRUE>>, <<"response", "putConfig", TRUE>>,
           <<"invalidateTags", "invalidateTags", TRUE>>,
           <<"invalidateTags", "invalidateTags", TRUE>> >>

\* The log ends with the failure of the step that was due.
EndsInFailure(log) ==
    /\ Len(log) >= 1
    /\ log[Len(log)].ev = "response"
    /\ ~log[Len(log)].ok
    /\ IsPrefix([Labels(log) EXCEPT ![Len(log)] = <<"response", log[Len(log)].req, TRUE>>],
                FullLegacyCreate)

C6_ValidateExactName ==
    \A c \in Callers :
        LET call == calls[c]
        IN  (call.op = "validate" /\ call.pc = "done") =>
              IF ~Legacy \/ call.skipValidation
              THEN /\ call.log = <<>>
                   /\ call.outcome = "resolved"
                   /\ call.value = NoData
              ELSE /\ Len(call.log) = 2
                   /\ IsRequest(call.log[1], "getConfig")
                   /\ call.outcome = "rejected" =>
                         /\ IsResponse(call.log[2], "getConfig", FALSE)
                         /\ call.value = NoData
                   /\ call.outcome = "resolved" =>
                         /\ IsResponse(call.log[2], "getConfig", TRUE)
                         /\ IF call.name \in Names(call.log[2].arg.doc.receivers)
                            THEN call.value = DuplicateMessage(call.name)
                            ELSE call.value = NoData

\* One validator has answered with the message for "a b", which the
\* document holds, and the other with no message for "a%20b", which it does
\* not hold.
C6_Witness ==
    \E c, d \in Callers :
        /\ Legacy
        /\ calls[c].op = "validate"
        /\ calls[c].name = NameAB
        /\ calls[c].value = DuplicateMessage(NameAB)
        /\ calls[d].op = "validate"
        /\ calls[d].name = NameABEnc
        /\ calls[d].outcome = "resolved"
        /\ ~calls[d].skipValidation
        /\ calls[d].value = NoData
        /\ NameAB \in Names(calls[d].log[2].arg.doc.receivers)

\* The call has resolved after a write that succeeded.
TookEffect(call) ==
    /\ call.pc = "done"
    /\ call.outcome = "resolved"
    /\ \E i \in DOMAIN call.log : IsResponse(call.log[i], "putConfig", TRUE)

\* The document the call's configuration fetch brought back.
FetchedBy(call) ==
    LET i == CHOOSE j \in DOMAIN call.log : IsResponse(call.log[j], "getConfig", TRUE)
    IN  call.log[i].arg.doc

\* C9: once two legacy operations - two deletes of distinct names, or a
\* delete and a create/update of different receivers - have both completed,
\* the stored document reflects both: no deleted name is present and the
\* created or updated receiver is present.
C9_BothTakeEffect ==
    \A c, d \in Callers :
        LET one == calls[c]
            two == calls[d]
        IN  (/\ c # d
             /\ Legacy
             /\ callsLeft = 0
             /\ TookEffect(one)
             /\ TookEffect(two)
             /\ one.op = "delete") =>
              /\ (two.op = "delete" /\ two.name # one.name) =>
                    /\ one.name \notin Names(config.receivers)
                    /\ two.name \notin Names(config.receivers)
              /\ (/\ two.op = "createOrUpdate"
                  /\ two.receiver.name # one.name
                  /\ two.originalName # one.name
                  /\ \/ two.originalName = <<>>
                     \/ two.originalName \in Names(FetchedBy(two).receivers)) =>
                    /\ one.name \notin Names(config.receivers)
                    /\ \E i \in DOMAIN config.receivers :
                          config.receivers[i] = two.receiver

----------------------------------------------------------------------------
(* Backend dispatch (checked under SpecAll).                               *)

Active(q) == queries[q].status # "uninitialized"

AtMostOneActive(Q) == Cardinality({q \in Q : Active(q)}) <= 1

\* C8: each operation addresses only the backend that is selected: of the
\* alternative queries of a list fetch or of a single fetch at most one is
\* active, the response handed back is the active query's, and the requests
\* of a mutation go to the structured API or to the legacy configuration
\* API, as selected, and never to both.
C8_OnlySelectedBackend ==
    /\ mounted = "list" =>
          LET response == useContactPointsWithStatus
          IN  /\ AtMostOneActive(ListQueries \cup {"alertmanagerConfiguration"})
              /\ Active(response.query)
              /\ response.status = queries[response.query].status
              /\ response.query =
                    IF alertmanager # GRAFANA_RULES_SOURCE_NAME
                    THEN "alertmanagerConfiguration" ELSE SelectedListQuery
    /\ mounted = "single" =>
          LET response == useGetContactPoint
          IN  /\ AtMostOneActive(SingleQueries)
              /\ Active(response.query)
              /\ response.status = queries[response.query].status
              /\ response.query = SelectedSingleQuery
    /\ \A c \in Callers :
          \A i \in Requests(calls[c].log) :
              IF Legacy THEN calls[c].log[i].api # "k8s"
              ELSE calls[c].log[i].api = "k8s"

\* With the structured backend selected for Grafana, the structured list
\* query has answered, the legacy list query was never sent, and the
\* response handed back is the structured one.
C8_Witness ==
    /\ mounted = "list"
    /\ alertmanager = GRAFANA_RULES_SOURCE_NAME
    /\ shouldUseK8sApi(GRAFANA_RULES_SOURCE_NAME)
    /\ queries["listNamespacedReceiver"].status = "fulfilled"
    /\ ~Active("contactPointsList")
    /\ useContactPointsWithStatus.query = "listNamespacedReceiver"
    /\ ~useContactPointsWithStatus.isLoading

====
